---- MODULE Spec2Model ----
(***************************************************************************)
(* The note engine of the Harmonica component (src/src/App.tsx, 53-177):   *)
(* the hole table, the adjacency check, playNote / stopNote and the key    *)
(* and click listeners, together with the React state they read and set.  *)
(*                                                                         *)
(* React state is modelled as the committed values (activeHoles, isDraw,   *)
(* audioContext, oscillators) plus `closure`, the values captured by the   *)
(* callbacks that are subscribed at the moment (the render that created    *)
(* them).  keydown, keyup and click are discrete events: the updates a     *)
(* listener queues are rendered, and the effects re-subscribed, before the *)
(* next event is delivered, so every action ends with Render.  One keydown *)
(* runs two listeners, initAudio on document and handleKeyDown on window;  *)
(* whether the render happens between them depends on how the event is     *)
(* dispatched, and both outcomes are followed.  The AudioContext           *)
(* constructor may throw.  An oscillator counts as stopped from the call   *)
(* of stop() on, whatever end time the call names; `release` keeps what    *)
(* the stopNote of the last event scheduled.                               *)
(* Frequencies are in hundredths of a hertz, gain values in hundredths,    *)
(* times in hundredths of a second after currentTime.                      *)
(***************************************************************************)
EXTENDS Integers, Sequences, FiniteSets

VARIABLES
    activeHoles,      \* useState<Set<number>>        (App.tsx:55)
    isDraw,           \* useState<boolean>            (App.tsx:56)
    audioContext,     \* useState<AudioContext|null>  (App.tsx:57), Null or a context id
    oscillators,      \* useState<Map<number, OscillatorNode>> (App.tsx:58)
    closure,          \* the state values the subscribed callbacks captured
    clickOnce,        \* the {once:true} click listener is still attached   (App.tsx:69)
    keydownOnce,      \* the {once:true} keydown listener is still attached (App.tsx:70)
    started,          \* audio graph: per hole, the oscillator nodes start()ed and not stop()ped
    contextsCreated,  \* number of AudioContext objects constructed so far
    release,          \* what stopNote scheduled in the event processed last (NoRelease if nothing)
    lastAdmitDraw,    \* history: modifier of the last key-down that inserted a hole
    event,            \* history: the event processed last
    holeIds,          \* argument of a stand-alone areHolesAdjacent call
    adjacent          \* its result ("unset" before the call)

vars == <<activeHoles, isDraw, audioContext, oscillators, closure, clickOnce,
          keydownOnce, started, contextsCreated, release, lastAdmitDraw, event,
          holeIds, adjacent>>

engineVars == <<activeHoles, isDraw, audioContext, oscillators, closure, clickOnce,
                keydownOnce, started, contextsCreated, release, lastAdmitDraw, event>>

----------------------------------------------------------------------------
(* Bounds *)

\* the keys of holes 1..MaxHole and one unmapped key are pressed
MaxHole == 5

\* the keys of holes 1..MaxUpper are also delivered in upper case
MaxUpper == 1

\* longest array handed to a stand-alone areHolesAdjacent call
MaxLen == 4

\* cap on the number of AudioContext constructions that is followed
MaxContexts == 3

----------------------------------------------------------------------------
(* Static data *)

Null == 0

\* variant: hole 2 is bound to the key of hole 1
harmonicaData_DupKey ==
    << [id |-> 1,  blowFreq |-> 26163,  drawFreq |-> 29366,  key |-> "q"],
       [id |-> 2,  blowFreq |-> 32963,  drawFreq |-> 39200,  key |-> "q"],
       [id |-> 3,  blowFreq |-> 39200,  drawFreq |-> 49388,  key |-> "e"],
       [id |-> 4,  blowFreq |-> 52325,  drawFreq |-> 58733,  key |-> "r"],
       [id |-> 5,  blowFreq |-> 65925,  drawFreq |-> 69846,  key |-> "t"],
       [id |-> 6,  blowFreq |-> 78399,  drawFreq |-> 88000,  key |-> "y"],
       [id |-> 7,  blowFreq |-> 104650, drawFreq |-> 98777,  key |-> "u"],
       [id |-> 8,  blowFreq |-> 131851, drawFreq |-> 117466, key |-> "i"],
       [id |-> 9,  blowFreq |-> 156798, drawFreq |-> 139691, key |-> "o"],
       [id |-> 10, blowFreq |-> 209300, drawFreq |-> 176000, key |-> "p"] >>

harmonicaData ==
    << [id |-> 1,  blowFreq |-> 26163,  drawFreq |-> 29366,  key |-> "q"],
       [id |-> 2,  blowFreq |-> 32963,  drawFreq |-> 39200,  key |-> "w"],
       [id |-> 3,  blowFreq |-> 39200,  drawFreq |-> 49388,  key |-> "e"],
       [id |-> 4,  blowFreq |-> 52325,  drawFreq |-> 58733,  key |-> "r"],
       [id |-> 5,  blowFreq |-> 65925,  drawFreq |-> 69846,  key |-> "t"],
       [id |-> 6,  blowFreq |-> 78399,  drawFreq |-> 88000,  key |-> "y"],
       [id |-> 7,  blowFreq |-> 104650, drawFreq |-> 98777,  key |-> "u"],
       [id |-> 8,  blowFreq |-> 131851, drawFreq |-> 117466, key |-> "i"],
       [id |-> 9,  blowFreq |-> 156798, drawFreq |-> 139691, key |-> "o"],
       [id |-> 10, blowFreq |-> 209300, drawFreq |-> 176000, key |-> "p"] >>

HoleIds == {harmonicaData[i].id : i \in DOMAIN harmonicaData}

\* the value of harmonicaData.find(...) when no entry matches
undefined == [id |-> 0, blowFreq |-> 0, drawFreq |-> 0, key |-> ""]

\* variant: a key that matches nothing falls back to the first hole
find_Fallback(key) ==
    LET matches == {i \in DOMAIN harmonicaData : harmonicaData[i].key = key}
    IN  IF matches = {} THEN harmonicaData[1]
        ELSE harmonicaData[CHOOSE i \in matches : \A j \in matches : i <= j]

\* harmonicaData.find(h => h.key === key): the first matching entry
find(key) ==
    LET matches == {i \in DOMAIN harmonicaData : harmonicaData[i].key = key}
    IN  IF matches = {} THEN undefined
        ELSE harmonicaData[CHOOSE i \in matches : \A j \in matches : i <= j]

\* String.prototype.toLowerCase on the characters a key event can carry
UpperCase ==
    [c \in {"q","w","e","r","t","y","u","i","o","p","z"} |->
        CASE c = "q" -> "Q" [] c = "w" -> "W" [] c = "e" -> "E" [] c = "r" -> "R"
          [] c = "t" -> "T" [] c = "y" -> "Y" [] c = "u" -> "U" [] c = "i" -> "I"
          [] c = "o" -> "O" [] c = "p" -> "P" [] c = "z" -> "Z"]

toLowerCase(c) ==
    IF \E l \in DOMAIN UpperCase : UpperCase[l] = c
    THEN CHOOSE l \in DOMAIN UpperCase : UpperCase[l] = c
    ELSE c

----------------------------------------------------------------------------
(* areHolesAdjacent *)

RECURSIVE Insert(_, _)
\* x put into the ascending sequence s
Insert(x, s) ==
    IF s = <<>> THEN <<x>>
    ELSE IF x - Head(s) <= 0 THEN <<x>> \o s
    ELSE <<Head(s)>> \o Insert(x, Tail(s))

\* position of a hole id in the order of its decimal string ("1" < "10" < "2")
LexKey(x) == IF x < 10 THEN 10 * x ELSE x + 5

RECURSIVE InsertLex(_, _)
InsertLex(x, s) ==
    IF s = <<>> THEN <<x>>
    ELSE IF LexKey(x) <= LexKey(Head(s)) THEN <<x>> \o s
    ELSE <<Head(s)>> \o InsertLex(x, Tail(s))

RECURSIVE sort_Lexicographic(_)
\* variant: sort() without the comparator, which orders the ids as strings
sort_Lexicographic(s) ==
    IF s = <<>> THEN <<>> ELSE InsertLex(Head(s), sort_Lexicographic(Tail(s)))

RECURSIVE sort(_)
\* [...holeIds].sort((a, b) => a - b)
sort(s) == IF s = <<>> THEN <<>> ELSE Insert(Head(s), sort(Tail(s)))

\* variant: a gap of one hole is let through
areHolesAdjacent_Gap2(ids) ==
    IF Len(ids) <= 1 THEN TRUE
    ELSE LET sortedIds == sort(ids)
         IN  \A i \in 2..Len(sortedIds) : ~(sortedIds[i] - sortedIds[i-1] > 2)

areHolesAdjacent(ids) ==
    IF Len(ids) <= 1 THEN TRUE
    ELSE LET sortedIds == sort(ids)
         IN  \A i \in 2..Len(sortedIds) : ~(sortedIds[i] - sortedIds[i-1] > 1)

RECURSIVE spread(_)
\* [...activeHoles]: the elements of the Set as an array.  A Set iterates in
\* insertion order; the model keeps no order and lists them descending.
spread(S) ==
    IF S = {} THEN <<>>
    ELSE LET m == CHOOSE x \in S : \A y \in S : y <= x
         IN  <<m>> \o spread(S \ {m})

----------------------------------------------------------------------------
(* Map and audio-graph helpers *)

MapSet(m, k, v) == [x \in (DOMAIN m) \cup {k} |-> IF x = k THEN v ELSE m[x]]

MapDelete(m, k) == [x \in (DOMAIN m) \ {k} |-> m[x]]

RECURSIVE RemoveOne(_, _)
\* the sequence s without its first occurrence of node n
RemoveOne(s, n) ==
    IF s = <<>> THEN <<>>
    ELSE IF Head(s) = n THEN Tail(s)
    ELSE <<Head(s)>> \o RemoveOne(Tail(s), n)

\* oscillator.start(): the node sounds for hole h
StartNode(g, h, n) == [g EXCEPT ![h] = Append(@, n)]

\* oscillator.stop(...): the node stops sounding
StopNode(g, h, n) == [g EXCEPT ![h] = RemoveOne(@, n)]

\* stopNote's gain level at the key-up and the length of its ramp
ReleaseGain == 30
ReleaseWindow == 10

\* audioContext.createGain(): a node nothing is connected to, with no automation
createGain == [inputs |-> {}, automation |-> << >>]

\* gain.setValueAtTime / gain.linearRampToValueAtTime on a gain node
Automate(g, value, time) ==
    [g EXCEPT !.automation = Append(@, [value |-> value, time |-> time])]

\* no stopNote has scheduled anything in this event
NoRelease == [hole |-> 0, gainNode |-> createGain, stopAt |-> 0]

\* the mutable state a listener works on
State == [activeHoles |-> activeHoles, isDraw |-> isDraw, audioContext |-> audioContext,
          oscillators |-> oscillators, started |-> started,
          contextsCreated |-> contextsCreated, release |-> NoRelease]

\* variant: the listeners subscribed at mount are never replaced (empty
\* dependency lists)
Render_MountOnly(S) == closure

\* variant: playNote and stopNote are not re-created when the audio context
\* changes (audioContext missing from their dependency lists)
Render_StaleContext(S) ==
    [activeHoles |-> S.activeHoles, audioContext |-> closure.audioContext,
     oscillators |-> S.oscillators]

\* a render: the callbacks are re-created over the committed state
Render(S) == [activeHoles |-> S.activeHoles, audioContext |-> S.audioContext,
              oscillators |-> S.oscillators]

----------------------------------------------------------------------------
(* Callbacks.  S is the state being updated, cl the captured values.       *)

\* variant: a context is constructed whatever the listener captured
initAudio_NoGuard(S, cl, constructs) ==
    IF constructs
    THEN [S EXCEPT !.audioContext = S.contextsCreated + 1,
                   !.contextsCreated = S.contextsCreated + 1]
    ELSE S

\* initAudio; constructs = the AudioContext constructor returns (else it throws)
initAudio(S, cl, constructs) ==
    IF cl.audioContext = Null /\ constructs
    THEN [S EXCEPT !.audioContext = S.contextsCreated + 1,
                   !.contextsCreated = S.contextsCreated + 1]
    ELSE S

\* variant: the hole is never put into activeHoles
playNote_NoActive(S, cl, hole, draw) ==
    IF cl.audioContext = Null THEN S
    ELSE
      LET frequency == IF draw THEN hole.drawFreq ELSE hole.blowFreq
          hasExisting == hole.id \in DOMAIN cl.oscillators
          S1 == IF hasExisting
                THEN [S EXCEPT !.started = StopNode(S.started, hole.id, cl.oscillators[hole.id]),
                               !.oscillators = MapDelete(S.oscillators, hole.id)]
                ELSE S
          oscillator == [frequency |-> frequency]
      IN  [S1 EXCEPT !.started = StartNode(S1.started, hole.id, oscillator),
                     !.oscillators = MapSet(S1.oscillators, hole.id, oscillator)]

\* variant: the hole is put into activeHoles before the audio context is asked for
playNote_ActiveFirst(S, cl, hole, draw) ==
    LET S0 == [S EXCEPT !.activeHoles = S.activeHoles \cup {hole.id}]
    IN
    IF cl.audioContext = Null THEN S0
    ELSE
      LET frequency == IF draw THEN hole.drawFreq ELSE hole.blowFreq
          hasExisting == hole.id \in DOMAIN cl.oscillators
          S1 == IF hasExisting
                THEN [S0 EXCEPT !.started = StopNode(S0.started, hole.id, cl.oscillators[hole.id]),
                                !.oscillators = MapDelete(S0.oscillators, hole.id)]
                ELSE S0
          oscillator == [frequency |-> frequency]
      IN  [S1 EXCEPT !.started = StartNode(S1.started, hole.id, oscillator),
                     !.oscillators = MapSet(S1.oscillators, hole.id, oscillator)]

\* variant: every sounding oscillator is retuned to the new note's direction
playNote_RetunesAll(S, cl, hole, draw) ==
    IF cl.audioContext = Null THEN S
    ELSE
      LET pitch(h) == [frequency |-> IF draw THEN harmonicaData[h].drawFreq
                                     ELSE harmonicaData[h].blowFreq]
          voiced == (DOMAIN S.oscillators) \cup {hole.id}
      IN  [S EXCEPT !.started = [h \in DOMAIN S.started |->
                                    IF h \in voiced THEN <<pitch(h)>> ELSE S.started[h]],
                    !.oscillators = [h \in voiced |-> pitch(h)],
                    !.activeHoles = S.activeHoles \cup {hole.id}]

\* variant: the pitch follows the component's isDraw state, not the argument
playNote_StateDirection(S, cl, hole, draw) ==
    IF cl.audioContext = Null THEN S
    ELSE
      LET frequency == IF isDraw THEN hole.drawFreq ELSE hole.blowFreq
          hasExisting == hole.id \in DOMAIN cl.oscillators
          S1 == IF hasExisting
                THEN [S EXCEPT !.started = StopNode(S.started, hole.id, cl.oscillators[hole.id]),
                               !.oscillators = MapDelete(S.oscillators, hole.id)]
                ELSE S
          oscillator == [frequency |-> frequency]
      IN  [S1 EXCEPT !.started = StartNode(S1.started, hole.id, oscillator),
                     !.oscillators = MapSet(S1.oscillators, hole.id, oscillator),
                     !.activeHoles = S1.activeHoles \cup {hole.id}]

playNote(S, cl, hole, draw) ==
    IF cl.audioContext = Null THEN S
    ELSE
      LET frequency == IF draw THEN hole.drawFreq ELSE hole.blowFreq
          hasExisting == hole.id \in DOMAIN cl.oscillators
          \* existingOsc.stop(); oscillators.delete(hole.id) (the Map is mutated in place)
          S1 == IF hasExisting
                THEN [S EXCEPT !.started = StopNode(S.started, hole.id, cl.oscillators[hole.id]),
                               !.oscillators = MapDelete(S.oscillators, hole.id)]
                ELSE S
          oscillator == [frequency |-> frequency]
      IN  [S1 EXCEPT !.started = StartNode(S1.started, hole.id, oscillator),
                     !.oscillators = MapSet(S1.oscillators, hole.id, oscillator),
                     !.activeHoles = S1.activeHoles \cup {hole.id}]

\* variant: a release that would leave a gap is refused
stopNote_Gated(S, cl, holeId) ==
    IF ~areHolesAdjacent(spread(cl.activeHoles \ {holeId})) THEN S
    ELSE
    LET S1 == IF holeId \in DOMAIN cl.oscillators /\ cl.audioContext # Null
              THEN [S EXCEPT !.started = StopNode(S.started, holeId, cl.oscillators[holeId]),
                             !.oscillators = MapDelete(S.oscillators, holeId)]
              ELSE S
    IN  [S1 EXCEPT !.activeHoles = S1.activeHoles \ {holeId}]

\* variant: the map entry is dropped but the oscillator is never stopped
stopNote_NoStop(S, cl, holeId) ==
    LET S1 == IF holeId \in DOMAIN cl.oscillators /\ cl.audioContext # Null
              THEN [S EXCEPT !.oscillators = MapDelete(S.oscillators, holeId)]
              ELSE S
    IN  [S1 EXCEPT !.activeHoles = S1.activeHoles \ {holeId}]

\* variant: the hole leaves activeHoles but its map entry is kept
stopNote_KeepsEntry(S, cl, holeId) ==
    LET S1 == IF holeId \in DOMAIN cl.oscillators /\ cl.audioContext # Null
              THEN [S EXCEPT !.started = StopNode(S.started, holeId, cl.oscillators[holeId])]
              ELSE S
    IN  [S1 EXCEPT !.activeHoles = S1.activeHoles \ {holeId}]

\* variant: a release that finds no oscillator clears the whole active set
stopNote_ClearsAll(S, cl, holeId) ==
    IF holeId \in DOMAIN cl.oscillators /\ cl.audioContext # Null
    THEN [S EXCEPT !.started = StopNode(S.started, holeId, cl.oscillators[holeId]),
                   !.oscillators = MapDelete(S.oscillators, holeId),
                   !.activeHoles = S.activeHoles \ {holeId}]
    ELSE [S EXCEPT !.activeHoles = {}]

stopNote(S, cl, holeId) ==
    LET \* const gainNode = audioContext.createGain(), then the two gain calls
        gainNode == Automate(Automate(createGain, ReleaseGain, 0), 0, ReleaseWindow)
        S1 == IF holeId \in DOMAIN cl.oscillators /\ cl.audioContext # Null
              THEN [S EXCEPT !.release = [hole |-> holeId, gainNode |-> gainNode,
                                          stopAt |-> ReleaseWindow],
                             !.started = StopNode(S.started, holeId, cl.oscillators[holeId]),
                             !.oscillators = MapDelete(S.oscillators, holeId)]
              ELSE S
    IN  [S1 EXCEPT !.activeHoles = S1.activeHoles \ {holeId}]

\* variant: the repeats of a held key whose hole is silent are tried again
handleKeyDown_RepeatRetries(S, cl, e) ==
    LET key == toLowerCase(e.key)
        isShiftPressed == e.shiftKey
        hole == find(key)
    IN  IF e.repeat /\ (hole = undefined \/ hole.id \in cl.activeHoles) THEN S
        ELSE IF hole # undefined /\ hole.id \notin cl.activeHoles
        THEN LET newActiveHoles == Append(spread(cl.activeHoles), hole.id)
             IN  IF areHolesAdjacent(newActiveHoles)
                 THEN playNote([S EXCEPT !.isDraw = isShiftPressed], cl, hole, isShiftPressed)
                 ELSE S
        ELSE S

\* variant: a hole is admitted when the set is empty or a neighbour is active
handleKeyDown_NeighbourOnly(S, cl, e) ==
    IF e.repeat THEN S
    ELSE
      LET key == toLowerCase(e.key)
          isShiftPressed == e.shiftKey
          hole == find(key)
      IN  IF hole # undefined /\ hole.id \notin cl.activeHoles
          THEN IF \/ cl.activeHoles = {}
                  \/ hole.id - 1 \in cl.activeHoles
                  \/ hole.id + 1 \in cl.activeHoles
               THEN playNote([S EXCEPT !.isDraw = isShiftPressed], cl, hole, isShiftPressed)
               ELSE S
          ELSE S

\* variant: the repeat flag is not looked at
handleKeyDown_NoRepeatFilter(S, cl, e) ==
    LET key == toLowerCase(e.key)
        isShiftPressed == e.shiftKey
        hole == find(key)
    IN  IF hole # undefined /\ hole.id \notin cl.activeHoles
        THEN LET newActiveHoles == Append(spread(cl.activeHoles), hole.id)
             IN  IF areHolesAdjacent(newActiveHoles)
                 THEN playNote([S EXCEPT !.isDraw = isShiftPressed], cl, hole, isShiftPressed)
                 ELSE S
        ELSE S

\* variant: a hole that is already active is played again
handleKeyDown_NoActiveCheck(S, cl, e) ==
    IF e.repeat THEN S
    ELSE
      LET key == toLowerCase(e.key)
          isShiftPressed == e.shiftKey
          hole == find(key)
      IN  IF hole # undefined
          THEN LET newActiveHoles == Append(spread(cl.activeHoles \ {hole.id}), hole.id)
               IN  IF areHolesAdjacent(newActiveHoles)
                   THEN playNote([S EXCEPT !.isDraw = isShiftPressed], cl, hole, isShiftPressed)
                   ELSE S
          ELSE S

handleKeyDown(S, cl, e) ==
    IF e.repeat THEN S
    ELSE
      LET key == toLowerCase(e.key)
          isShiftPressed == e.shiftKey
          hole == find(key)
      IN  IF hole # undefined /\ hole.id \notin cl.activeHoles
          THEN LET newActiveHoles == Append(spread(cl.activeHoles), hole.id)
               IN  IF areHolesAdjacent(newActiveHoles)
                   THEN playNote([S EXCEPT !.isDraw = isShiftPressed], cl, hole, isShiftPressed)
                   ELSE S
          ELSE S

\* variant: the direction falls back to blow when the last hole is released
handleKeyUp_ResetsDirection(S, cl, e) ==
    LET key == toLowerCase(e.key)
        hole == find(key)
        S1 == IF hole # undefined THEN stopNote(S, cl, hole.id) ELSE S
    IN  IF S1.activeHoles = {} THEN [S1 EXCEPT !.isDraw = FALSE] ELSE S1

\* variant: the key of a key-up is looked up as delivered
handleKeyUp_CaseSensitive(S, cl, e) ==
    LET key == e.key
        hole == find(key)
    IN  IF hole # undefined THEN stopNote(S, cl, hole.id) ELSE S

handleKeyUp(S, cl, e) ==
    LET key == toLowerCase(e.key)
        hole == find(key)
    IN  IF hole # undefined THEN stopNote(S, cl, hole.id) ELSE S

----------------------------------------------------------------------------
(* Events *)

\* the characters the modelled keyboard delivers
Keys ==
    {harmonicaData[i].key : i \in 1..MaxHole} \cup {"z"}
      \cup {UpperCase[harmonicaData[i].key] : i \in 1..MaxUpper}

NoKey == ""

\* commit the state S left by the listeners of one event
Commit(S) ==
    /\ activeHoles' = S.activeHoles
    /\ isDraw' = S.isDraw
    /\ audioContext' = S.audioContext
    /\ oscillators' = S.oscillators
    /\ started' = S.started
    /\ contextsCreated' = S.contextsCreated
    /\ release' = S.release
    /\ closure' = Render(S)

\* whether the constructor is reached at all by a gesture on an attached listener
Constructing(attached) == attached /\ closure.audioContext = Null

Click ==
    \E constructs \in (IF Constructing(clickOnce) THEN BOOLEAN ELSE {TRUE}) :
      LET S1 == IF clickOnce THEN initAudio(State, closure, constructs) ELSE State
      IN  /\ contextsCreated < MaxContexts
          /\ Commit(S1)
          \* a new context re-runs the effect, which attaches both listeners again
          /\ clickOnce' = (S1.audioContext # audioContext)
          /\ keydownOnce' = IF S1.audioContext # audioContext THEN TRUE ELSE keydownOnce
          /\ event' = [type |-> "click", key |-> NoKey, shiftKey |-> FALSE, repeat |-> FALSE]
          /\ UNCHANGED <<lastAdmitDraw, holeIds, adjacent>>

KeyDown ==
    \E key \in Keys, shiftKey \in BOOLEAN, repeat \in BOOLEAN :
    \E constructs \in (IF Constructing(keydownOnce) THEN BOOLEAN ELSE {TRUE}) :
    \E flushed \in (IF Constructing(keydownOnce) /\ constructs THEN BOOLEAN ELSE {TRUE}) :
      LET e  == [type |-> "keydown", key |-> key, shiftKey |-> shiftKey, repeat |-> repeat]
          \* document listener
          S1 == IF keydownOnce THEN initAudio(State, closure, constructs) ELSE State
          \* the update is rendered between the two listeners when the
          \* microtask queue is drained there
          cl == IF flushed THEN Render(S1) ELSE closure
          \* window listener
          S2 == handleKeyDown(S1, cl, e)
      IN  /\ contextsCreated < MaxContexts
          /\ Commit(S2)
          /\ keydownOnce' = (S2.audioContext # audioContext)
          /\ clickOnce' = IF S2.audioContext # audioContext THEN TRUE ELSE clickOnce
          /\ lastAdmitDraw' = IF S2.activeHoles # activeHoles THEN shiftKey ELSE lastAdmitDraw
          /\ event' = e
          /\ UNCHANGED <<holeIds, adjacent>>

KeyUp ==
    \E key \in Keys :
      LET e  == [type |-> "keyup", key |-> key, shiftKey |-> FALSE, repeat |-> FALSE]
          S1 == handleKeyUp(State, closure, e)
      IN  /\ Commit(S1)
          /\ event' = e
          /\ UNCHANGED <<clickOnce, keydownOnce, lastAdmitDraw, holeIds, adjacent>>

InitEngine ==
    /\ activeHoles = {}
    /\ isDraw = FALSE
    /\ audioContext = Null
    /\ oscillators = << >>
    /\ closure = [activeHoles |-> {}, audioContext |-> Null, oscillators |-> << >>]
    /\ clickOnce = TRUE
    /\ keydownOnce = TRUE
    /\ started = [h \in HoleIds |-> << >>]
    /\ contextsCreated = 0
    /\ release = NoRelease
    /\ lastAdmitDraw = FALSE
    /\ event = [type |-> "none", key |-> NoKey, shiftKey |-> FALSE, repeat |-> FALSE]

Init ==
    /\ InitEngine
    /\ holeIds = << >>
    /\ adjacent = "unset"

Next == Click \/ KeyDown \/ KeyUp

Spec == Init /\ [][Next]_vars

----------------------------------------------------------------------------
(* areHolesAdjacent on its own: every duplicate-free array of at most      *)
(* MaxLen hole ids, in every order.                                        *)

Arrays ==
    {a \in UNION {[1..n -> HoleIds] : n \in 0..MaxLen} :
        \A i, j \in DOMAIN a : i # j => a[i] # a[j]}

InitAdj ==
    /\ InitEngine
    /\ holeIds \in Arrays
    /\ adjacent = "unset"

Validate ==
    /\ adjacent = "unset"
    /\ adjacent' = IF areHolesAdjacent(holeIds) THEN "true" ELSE "false"
    /\ UNCHANGED <<engineVars, holeIds>>

NextAdj == Validate

SpecAdj == InitAdj /\ [][NextAdj]_vars

----------------------------------------------------------------------------
(* Vocabulary of the properties, stated without the callbacks above *)

SetMax(S) == CHOOSE x \in S : \A y \in S : y <= x
SetMin(S) == CHOOSE x \in S : \A y \in S : x <= y

\* a contiguous run of hole indices, or empty
Contiguous(S) == S = {} \/ SetMax(S) - SetMin(S) + 1 = Cardinality(S)

\* the hole a key character denotes in either case, 0 for an unmapped key
HoleOfKey(k) ==
    LET hs == {i \in DOMAIN harmonicaData :
                  \/ harmonicaData[i].key = k
                  \/ UpperCase[harmonicaData[i].key] = k}
    IN  IF hs = {} THEN 0 ELSE harmonicaData[CHOOSE i \in hs : TRUE].id

\* the hole of the key of the event the step processes
h_ev == HoleOfKey(event'.key)

\* the step processes a key-down without repeat flag for a mapped hole
FreshKeyDown ==
    /\ event'.type = "keydown"
    /\ ~event'.repeat
    /\ h_ev # 0

\* the step processes a key-up for a mapped hole
KeyUpMapped ==
    /\ event'.type = "keyup"
    /\ h_ev # 0

\* the holes that have a voice (an entry in the hole -> oscillator map)
Voiced == DOMAIN oscillators

----------------------------------------------------------------------------
\* C1: a key-down without repeat flag for a mapped hole h that is not active
\* and whose prospective set activeHoles \cup {h} is not contiguous starts no
\* voice and leaves activeHoles, the voice map and the direction as they were.
C1_RejectionChangesNothing ==
    [][(FreshKeyDown /\ h_ev \notin activeHoles /\ ~Contiguous(activeHoles \cup {h_ev}))
         => UNCHANGED <<activeHoles, oscillators, isDraw, started>>]_vars

\* the key-down on hole 1 was processed with {3,4} active, and {3,4} it stays
C1_Witness ==
    /\ event.type = "keydown" /\ ~event.repeat /\ event.key = "q"
    /\ activeHoles = {3, 4}
    /\ Voiced = {3, 4}

\* C2: activeHoles is in every reachable state empty or a contiguous run.
C2_AlwaysContiguous == Contiguous(activeHoles)

\* C3: with an audio context, a key-down without repeat flag for a silent
\* mapped hole h that keeps the set contiguous makes h sound: h joins
\* activeHoles, h has a started voice, the direction is the event's modifier
\* and no other hole's membership changes; a key-up for h leaves h outside
\* activeHoles.
C3_Admission ==
    [][/\ (FreshKeyDown /\ audioContext # Null /\ h_ev \notin activeHoles
              /\ Contiguous(activeHoles \cup {h_ev}))
             => /\ activeHoles' = activeHoles \cup {h_ev}
                /\ h_ev \in DOMAIN oscillators'
                /\ started'[h_ev] = <<oscillators'[h_ev]>>
                /\ isDraw' = event'.shiftKey
       /\ KeyUpMapped => h_ev \notin activeHoles']_vars

\* hole 5 was admitted as a draw note next to {3,4}
C3_Witness ==
    /\ event.type = "keydown" /\ ~event.repeat /\ event.key = "t" /\ event.shiftKey
    /\ activeHoles = {3, 4, 5}
    /\ isDraw
    /\ started[5] = <<[frequency |-> 69846]>>

\* C4: a key-down that would be admitted while no audio context exists still
\* puts the hole into activeHoles and sets the direction to the modifier.
C4_VisualsWithoutAudio ==
    [][(FreshKeyDown /\ audioContext = Null /\ audioContext' = Null
          /\ h_ev \notin activeHoles /\ Contiguous(activeHoles \cup {h_ev}))
         => /\ h_ev \in activeHoles'
            /\ isDraw' = event'.shiftKey]_vars

C6_LockStep == activeHoles = Voiced

\* two holes are highlighted and voiced after a release next to them
C6_Witness ==
    /\ event.type = "keyup" /\ event.key = "e"
    /\ activeHoles = {4, 5}
    /\ Voiced = {4, 5}

\* C7: for every hole at most one oscillator has been started and not
\* stopped, and a running oscillator is the hole's registered voice.
C7_OneVoicePerHole ==
    \A h \in HoleIds :
        /\ Len(started[h]) <= 1
        /\ started[h] # << >> => (h \in Voiced /\ started[h] = <<oscillators[h]>>)

\* hole 4 sounds a draw note while hole 3, released before, runs no oscillator
C7_Witness ==
    /\ event.type = "keyup" /\ event.key = "e"
    /\ started[4] = <<[frequency |-> 58733]>>
    /\ started[3] = << >>
    /\ 4 \in Voiced

\* C8: a key-down with the repeat flag starts no voice and leaves
\* activeHoles, the voice map and the direction unchanged, for every key and
\* modifier.
C8_RepeatIgnored ==
    [][(event'.type = "keydown" /\ event'.repeat)
         => UNCHANGED <<activeHoles, oscillators, isDraw, started>>]_vars

\* a repeat of the silent hole 5's key, modifier held, arrived next to {3,4}
C8_Witness ==
    /\ event.type = "keydown" /\ event.repeat /\ event.key = "t" /\ event.shiftKey
    /\ activeHoles = {3, 4}
    /\ ~isDraw

\* the set of elements of an array
Elements(a) == {a[i] : i \in DOMAIN a}

\* every element but the least has its predecessor in the set
NoGap(S) == \A x \in S : x = SetMin(S) \/ (x - 1) \in S

\* C9: areHolesAdjacent returns true iff the array has at most one element or
\* its elements form a run without gap (max - min + 1 = cardinality), in
\* whatever order they are supplied.
C9_AdjacentIffContiguous ==
    adjacent # "unset" =>
        /\ (adjacent = "true") <=> Contiguous(Elements(holeIds))
        /\ (adjacent = "true") <=> (Len(holeIds) <= 1 \/ NoGap(Elements(holeIds)))

\* an unsorted run was accepted
C9_Witness == adjacent = "true" /\ holeIds = <<2, 4, 3>>

\* C10: the direction is that of the most recently admitted note (blow before
\* any admission).
C10_DirectionOfLastAdmission == isDraw = lastAdmitDraw

\* the note table of the instrument (hundredths of a hertz), holes 1..10
BlowHz == <<26163, 32963, 39200, 52325, 65925, 78399, 104650, 131851, 156798, 209300>>
DrawHz == <<29366, 39200, 49388, 58733, 69846, 88000, 98777, 117466, 139691, 176000>>

\* C11: whenever a hole gets a voice, it is the hole of a key-down and the
\* voice has the hole's blow pitch when the modifier is not held and its draw
\* pitch when it is held, whatever the direction, the other active holes and
\* the events before.
C11_PitchOfHoleAndModifier ==
    [][\A h \in HoleIds :
         (h \in DOMAIN oscillators'
            /\ (h \notin DOMAIN oscillators \/ oscillators'[h] # oscillators[h]))
           => /\ event'.type = "keydown"
              /\ h = h_ev
              /\ oscillators'[h].frequency =
                    (IF event'.shiftKey THEN DrawHz[h] ELSE BlowHz[h])
              /\ started'[h] = <<oscillators'[h]>>]_vars

\* hole 1 got its draw pitch (293.66 Hz) next to hole 2 sounding its blow pitch
C11_Witness ==
    /\ event.type = "keydown" /\ event.key = "q" /\ event.shiftKey
    /\ activeHoles = {1, 2}
    /\ oscillators[1].frequency = 29366
    /\ oscillators[2].frequency = 32963

\* C12: a key-up for a mapped hole that has no voice changes nothing.
C12_KeyUpWithoutVoice ==
    [][(KeyUpMapped /\ h_ev \notin DOMAIN oscillators)
         => UNCHANGED <<activeHoles, oscillators, isDraw, started, audioContext>>]_vars

\* the key of the silent hole 5 was released while {3,4} sound as draw notes
C12_Witness ==
    /\ event.type = "keyup" /\ event.key = "t"
    /\ activeHoles = {3, 4}
    /\ Voiced = {3, 4}
    /\ isDraw

\* C13: a key-down without repeat flag for a hole that is already active
\* changes nothing, with either modifier.
C13_DuplicateKeyDown ==
    [][(FreshKeyDown /\ h_ev \in activeHoles)
         => UNCHANGED <<activeHoles, oscillators, isDraw, started>>]_vars

\* a second key-down for hole 4, modifier held, left its blow voice as it was
C13_Witness ==
    /\ event.type = "keydown" /\ ~event.repeat /\ event.key = "r" /\ event.shiftKey
    /\ 4 \in activeHoles
    /\ started[4] = <<[frequency |-> 52325]>>
    /\ ~isDraw

\* C14: a key-down or key-up whose character is not a registry key changes
\* nothing.
C14_UnmappedKeyIgnored ==
    [][(event'.type \in {"keydown", "keyup"} /\ h_ev = 0)
         => UNCHANGED <<activeHoles, oscillators, isDraw, started>>]_vars

\* the unmapped key z went down, modifier held, while {3,4} sound as blow notes
C14_Witness ==
    /\ event.type = "keydown" /\ ~event.repeat /\ event.key = "z" /\ event.shiftKey
    /\ activeHoles = {3, 4}
    /\ ~isDraw

\* C15: a key-up never changes the direction, and the direction changes only
\* in a start: a key-down without repeat flag for a silent mapped hole that
\* passes the adjacency check, to that event's modifier.
C15_StopKeepsDirection ==
    [][/\ event'.type = "keyup" => isDraw' = isDraw
       /\ isDraw' # isDraw
            => /\ FreshKeyDown
               /\ h_ev \notin activeHoles
               /\ Contiguous(activeHoles \cup {h_ev})
               /\ isDraw' = event'.shiftKey]_vars

\* the key-up of the last draw note emptied activeHoles; the direction is
\* still draw
C15_Witness ==
    /\ event.type = "keyup" /\ event.key = "r"
    /\ activeHoles = {}
    /\ isDraw
    /\ lastAdmitDraw

\* C16: the registry has ten entries with the indices 1..10 in order and
\* pairwise distinct keys, so a key character matches at most one entry; every
\* active or voiced hole is the index of its registry entry.
C16_RegistryWellFormed ==
    /\ \A h \in activeHoles \cup Voiced :
          h \in DOMAIN harmonicaData /\ harmonicaData[h].id = h
    /\ Len(harmonicaData) = 10
    /\ \A i \in DOMAIN harmonicaData : harmonicaData[i].id = i
    /\ \A i, j \in DOMAIN harmonicaData :
          harmonicaData[i].key = harmonicaData[j].key => i = j
    /\ \A k \in Keys :
          Cardinality({i \in DOMAIN harmonicaData :
                          harmonicaData[i].key = toLowerCase(k)}) <= 1

\* the key w was looked up and exactly hole 2 sounds
C16_Witness ==
    /\ event.type = "keydown" /\ event.key = "w"
    /\ activeHoles = {2}
    /\ Voiced = {2}

\* C17: from its admission to its key-up the voice of a hole keeps its
\* oscillator and pitch, whatever other event is processed.
C17_VoiceFixedWhileSounding ==
    [][\A h \in DOMAIN oscillators :
         ~(event'.type = "keyup" /\ h_ev = h)
           => /\ h \in DOMAIN oscillators'
              /\ oscillators'[h] = oscillators[h]
              /\ started'[h] = started[h]]_vars

\* hole 4 still sounds its blow pitch after hole 5 was admitted as a draw note
C17_Witness ==
    /\ event.type = "keydown" /\ event.key = "t" /\ event.shiftKey
    /\ activeHoles = {4, 5}
    /\ oscillators[4].frequency = 52325
    /\ oscillators[5].frequency = 69846

Quiescent(S) ==
    /\ S.activeHoles = {}
    /\ DOMAIN S.oscillators = {}
    /\ \A h \in HoleIds : S.started[h] = << >>

RECURSIVE Quiesces(_, _, _)
\* key-ups for the holes in hs, processed from S in ascending (up) or in
\* descending order of the hole index, end quiescent
Quiesces(S, hs, up) ==
    IF hs = {} THEN Quiescent(S)
    ELSE LET h == IF up THEN SetMin(hs) ELSE SetMax(hs)
         IN  Quiesces(handleKeyUp(S, Render(S),
                                  [type |-> "keyup", key |-> harmonicaData[h].key,
                                   shiftKey |-> FALSE, repeat |-> FALSE]),
                      hs \ {h}, up)

\* C19: before any event all holes are silent; from every reachable state the
\* key-ups of the sounding holes, lowest first or highest first, leave no
\* active hole and no voice; and some event can always be processed.
C19_QuiescenceReachable ==
    /\ event.type = "none" => Quiescent(State)
    /\ \A up \in BOOLEAN : Quiesces(State, activeHoles \cup Voiced, up)
    /\ ENABLED Next

\* all holes are silent again after notes were played
C19_Witness ==
    /\ event.type = "keyup"
    /\ Quiescent(State)
    /\ lastAdmitDraw
    /\ audioContext # Null

KeyDownEvent(k, s) == [type |-> "keydown", key |-> k, shiftKey |-> s, repeat |-> FALSE]
KeyUpEvent(k) == [type |-> "keyup", key |-> k, shiftKey |-> FALSE, repeat |-> FALSE]

\* C20: for every registry key the upper-case and the lower-case character
\* are handled alike by key-down and by key-up, and either form releases a
\* sounding hole.
C20_CaseInsensitiveLookup ==
    \A i \in DOMAIN harmonicaData :
      LET lo == harmonicaData[i].key
          up == UpperCase[lo]
      IN  /\ up # lo
          /\ handleKeyUp(State, closure, KeyUpEvent(up))
               = handleKeyUp(State, closure, KeyUpEvent(lo))
          /\ \A s \in BOOLEAN :
               handleKeyDown(State, closure, KeyDownEvent(up, s))
                 = handleKeyDown(State, closure, KeyDownEvent(lo, s))
          /\ harmonicaData[i].id \in activeHoles
               => \A k \in {lo, up} :
                    harmonicaData[i].id \notin handleKeyUp(State, closure, KeyUpEvent(k)).activeHoles

\* hole 1, admitted by the upper-case Q with the modifier held, sounds
C20_Witness ==
    /\ event.type = "keydown" /\ event.key = "Q" /\ event.shiftKey
    /\ 1 \in activeHoles
    /\ started[1] = <<[frequency |-> 29366]>>

\* C21: a key-up for a hole that has a voice schedules the ramp to 0 over
\* the release window on the gain node that voice's oscillator feeds, stops
\* the oscillator at the end of the window and removes the map entry.
C21_ReleaseRampOnOwnGain ==
    [][(KeyUpMapped /\ h_ev \in DOMAIN oscillators)
         => /\ release'.hole = h_ev
            /\ oscillators[h_ev] \in release'.gainNode.inputs
            /\ release'.gainNode.automation # << >>
            /\ release'.gainNode.automation[Len(release'.gainNode.automation)]
                 = [value |-> 0, time |-> ReleaseWindow]
            /\ release'.stopAt = ReleaseWindow
            /\ h_ev \notin DOMAIN oscillators'
            /\ started'[h_ev] = << >>]_vars

\* C22: a key-down processed while there is no audio context leaves no
\* half-built voice behind (no map entry, no running oscillator, no active
\* hole); and once the audio context is there, every key-down without repeat
\* flag for a silent mapped hole that passes the adjacency check starts exactly
\* one oscillator for that hole, whatever was pressed before.
C22_AudioRecovers ==
    [][/\ (event'.type = "keydown" /\ audioContext' = Null)
            => /\ activeHoles' = {}
               /\ DOMAIN oscillators' = {}
               /\ \A h \in HoleIds : started'[h] = << >>
       /\ (/\ FreshKeyDown
           /\ audioContext # Null
           /\ h_ev \notin activeHoles
           /\ Contiguous(activeHoles \cup {h_ev}))
            => /\ h_ev \in activeHoles'
               /\ h_ev \in DOMAIN oscillators'
               /\ started'[h_ev] = <<oscillators'[h_ev]>>]_vars

\* hole 1 sounds after a key-down that found the context already there (both
\* once-listeners of the render that followed its creation are used up)
C22_Witness ==
    /\ event.type = "keydown" /\ event.key = "q" /\ ~event.repeat
    /\ audioContext # Null
    /\ ~clickOnce /\ ~keydownOnce
    /\ activeHoles = {1}
    /\ started[1] = <<[frequency |-> 26163]>>

\* C23: whenever a key-down puts a hole into activeHoles the resulting set is
\* a contiguous run; and from a set with a gap a key-down without repeat flag
\* for a silent mapped hole is admitted exactly when the hole closes every
\* gap, the set staying as it is otherwise.
C23_AdmissionYieldsRun ==
    [][/\ ~(activeHoles' \subseteq activeHoles) => Contiguous(activeHoles')
       /\ (FreshKeyDown /\ ~Contiguous(activeHoles) /\ h_ev \notin activeHoles)
            => /\ Contiguous(activeHoles \cup {h_ev})
                  => activeHoles' = activeHoles \cup {h_ev}
               /\ ~Contiguous(activeHoles \cup {h_ev})
                  => activeHoles' = activeHoles]_vars

\* hole 4 was admitted as a draw note between the blow notes of holes 3 and
\* 5: the set was {3, 5} before
C23_Witness ==
    /\ event.type = "keydown" /\ event.key = "r" /\ event.shiftKey /\ ~event.repeat
    /\ activeHoles = {3, 4, 5}
    /\ isDraw
    /\ oscillators[3].frequency = 39200
    /\ oscillators[4].frequency = 58733
    /\ oscillators[5].frequency = 65925

\* C24: in every state every active hole has a voice, and its pitch is the
\* one of the direction the renderer shows for all active holes (isDraw): no
\* two sounding holes differ in direction.
C24_VoicesMatchDirection ==
    \A h \in activeHoles :
      /\ h \in DOMAIN oscillators
      /\ oscillators[h].frequency = (IF isDraw THEN DrawHz[h] ELSE BlowHz[h])

\* C25: a silent hole becomes active or voiced only in the step that
\* processes a key-down without repeat flag for that hole; in every other step
\* (a repeat of its held key, an admission or release of another hole, a
\* click) it stays silent, also when activeHoles with it would be contiguous.
C25_NoRetroactiveAdmission ==
    [][\A h \in HoleIds :
         (h \notin activeHoles /\ h \notin DOMAIN oscillators
            /\ ~(FreshKeyDown /\ h_ev = h))
           => /\ h \notin activeHoles'
              /\ h \notin DOMAIN oscillators'
              /\ started'[h] = started[h]]_vars

\* a repeat of the key of hole 5 arrived when {3,4} sound as draw notes: hole
\* 5 would be adjacent now and is still silent
C25_Witness ==
    /\ event.type = "keydown" /\ event.repeat /\ event.key = "t" /\ ~event.shiftKey
    /\ activeHoles = {3, 4}
    /\ isDraw
    /\ 5 \notin Voiced
    /\ started[5] = << >>

====
